---- MODULE Spec2Model ----
(***************************************************************************)
(* Model of the LabHoney honeypot: the per-connection supervisor           *)
(* (honeypot.py, client_connected) and the three protocol handlers         *)
(* (handlers.py: http_handler, banner_handler, generic_tcp_handler) with   *)
(* the interaction recorder log_interaction.                               *)
(*                                                                         *)
(* Every accepted connection is one asyncio task.  A task's position is    *)
(* pc[c]; one action is the code between two suspension points (or up to   *)
(* the point where an exception leaves the function).  The peer and the    *)
(* log sink are the environment: a read returns a chunk, end of stream, a  *)
(* timeout or a transport error; a drain succeeds or fails; a call of the  *)
(* logger succeeds or raises.                                              *)
(*                                                                         *)
(* Python values: bytes are sequences of 0..255, None is the string        *)
(* "None", an absent peername is the empty tuple (falsy, like None).       *)
(* The record field "ts" (wall clock) is not modelled.                     *)
(*                                                                         *)
(* Three specifications: Spec is the run phase, every listener listening   *)
(* and MaxConns connections; MainSpec is the whole run of main, from       *)
(* run_from_config to the end of the process, with MaxMainConns            *)
(* connections; FairSpec is the run phase with the scheduling the event    *)
(* loop guarantees, for MaxMainConns connections.                          *)
(***************************************************************************)
EXTENDS Integers, Sequences, FiniteSets, TLC

(***************************************************************************)
(* Bounds of the model.                                                    *)
(***************************************************************************)
MaxConns == 2
MaxChunks == 2

ConnIds == 1..MaxConns

None == "None"

(***************************************************************************)
(* Bytes the modelled peers send: b"ping" and the lone invalid byte 0xff.  *)
(***************************************************************************)
Ping == <<112, 105, 110, 103>>
Garbage == <<255>>
Chunks == {Ping, Garbage}
EmptyBytes == <<>>

(***************************************************************************)
(* Listener configurations: DEFAULT_CONFIG plus a generic listener with    *)
(* echo enabled, as a configuration file may supply.  The banner is the    *)
(* configured string "SSH-2.0-OpenSSH_7.4\\r\\n" as character codes: it    *)
(* ends in backslash, r, backslash, n.                                     *)
(***************************************************************************)
ConfiguredBanner ==
    <<83, 83, 72, 45, 50, 46, 48, 45, 79, 112, 101, 110, 83, 83, 72, 95,
      55, 46, 52, 92, 114, 92, 110>>

DEFAULT_CONFIG ==
    << [port |-> 80, proto |-> "tcp", handler |-> "http"],
       [port |-> 2222, proto |-> "tcp", handler |-> "banner",
        banner |-> ConfiguredBanner],
       [port |-> 502, proto |-> "tcp", handler |-> "generic", echo |-> FALSE] >>

EchoListener == [port |-> 7, proto |-> "tcp", handler |-> "generic", echo |-> TRUE]

Listeners == Append(DEFAULT_CONFIG, EchoListener)

ListenerIds == 1..Len(Listeners)

\* dict.get(key, default)
Get(d, key, default) == IF key \in DOMAIN d THEN d[key] ELSE default

\* str(port), as in f"tcp_{port}"
PortStr(p) == ToString(p)

(***************************************************************************)
(* binascii.hexlify(data).decode(): two lower-case hex digits per byte.    *)
(***************************************************************************)
HexDigit(n) ==
    CASE n = 0 -> "0" [] n = 1 -> "1" [] n = 2 -> "2" [] n = 3 -> "3"
      [] n = 4 -> "4" [] n = 5 -> "5" [] n = 6 -> "6" [] n = 7 -> "7"
      [] n = 8 -> "8" [] n = 9 -> "9" [] n = 10 -> "a" [] n = 11 -> "b"
      [] n = 12 -> "c" [] n = 13 -> "d" [] n = 14 -> "e" [] n = 15 -> "f"

RECURSIVE Hexlify(_)
Hexlify(b) ==
    IF b = <<>> THEN ""
    ELSE HexDigit(Head(b) \div 16) \o HexDigit(Head(b) % 16) \o Hexlify(Tail(b))

(***************************************************************************)
(* data.decode("utf-8", errors="replace") on the modelled alphabet: an     *)
(* ASCII byte is its own code point, the byte 0xff (never valid in UTF-8)  *)
(* becomes U+FFFD.                                                         *)
(***************************************************************************)
DecodeReplace(b) == [i \in 1..Len(b) |-> IF b[i] < 128 THEN b[i] ELSE 65533]

(***************************************************************************)
(* banner.encode().decode('unicode_escape').encode() on ASCII text: the    *)
(* two characters backslash + r, n, t or backslash become one control      *)
(* byte; every other character is kept.                                    *)
(***************************************************************************)
RECURSIVE UnicodeEscape(_)
UnicodeEscape(s) ==
    IF s = <<>> THEN <<>>
    ELSE IF Head(s) = 92 /\ Len(s) >= 2 /\ s[2] \in {114, 110, 116, 92}
         THEN << CASE s[2] = 114 -> 13
                   [] s[2] = 110 -> 10
                   [] s[2] = 116 -> 9
                   [] s[2] = 92 -> 92 >> \o UnicodeEscape(Tail(Tail(s)))
         ELSE <<Head(s)>> \o UnicodeEscape(Tail(s))

\* listener.get("banner", "SSH-2.0-OpenSSH_7.4\r\n") decoded, in wrapper h
DefaultBanner ==
    <<83, 83, 72, 45, 50, 46, 48, 45, 79, 112, 101, 110, 83, 83, 72, 95,
      55, 46, 52, 13, 10>>

BannerOf(l) == UnicodeEscape(Get(Listeners[l], "banner", DefaultBanner))

\* bool(listener.get("echo", False))
EchoOf(l) == Get(Listeners[l], "echo", FALSE)

\* listener.get("handler")
HandlerOf(l) == Listeners[l].handler

\* listener.get("service", f"tcp_{port}") set by the generic wrapper
GenericService(l) ==
    Get(Listeners[l], "service", "tcp_" \o PortStr(Listeners[l].port))

(***************************************************************************)
(* writer.get_extra_info("peername"): a (host, port) tuple, or absent      *)
(* (the empty tuple here).  Each connection has its own peer port.         *)
(***************************************************************************)
PeerHost == "198.51.100.7"
PeerPort(c) == "4000" \o ToString(c)
PeerNames(c) == {<<>>, <<PeerHost, PeerPort(c)>>}

\* d[key] = value on a dict
Set(d, key, value) == (key :> value) @@ d

\* ctx_base = {"logger": logger}
ctx_base == [logger |-> "jsonl_logger"]

(***************************************************************************)
(* str(e) of the exceptions the modelled paths raise.                      *)
(***************************************************************************)
NoException == ""
TypeErrorText == "'NoneType' object is not subscriptable"
AttributeErrorText == "'bytes' object has no attribute 'format'"
ConnectionResetText == "[Errno 104] Connection reset by peer"
SinkErrorText == "[Errno 28] No space left on device"

VARIABLES
    pc,        \* pc[c]: position of connection c's task
    lsn,       \* lsn[c]: the listener that accepted c (0 before accept)
    peername,  \* peername[c]: the transport's peername
    ctx,       \* ctx[r]: the dict object r (a listener's ctx_base, a connection's ctx)
    data,      \* data[c]: the handler's local variable data
    io,        \* io[c]: history of the I/O and logger calls c's task completed
    wclosed,   \* wclosed[c]: writer.close() has been called
    exc,       \* exc[c]: str(e) of the exception that left the handler
    escaped,   \* escaped[c]: an exception left client_connected
    sink,      \* the records the logger has appended, in order
    mainpc,    \* position of main
    cfgi,      \* run_from_config: index of the next listener config
    servers,   \* run_from_config: the local list servers
    SERVERS,   \* the module's global list SERVERS
    lstate     \* lstate[l]: state of the listening socket of config l

connvars == <<pc, lsn, peername, ctx, data, io, wclosed, exc, escaped, sink>>

lifecycle == <<mainpc, cfgi, servers, SERVERS, lstate>>

vars == <<connvars, lifecycle>>

(***************************************************************************)
(* The dict objects.  start_listener creates one ctx_base per listener;    *)
(* client_connected creates ctx = dict(ctx_base), a new dict, for every    *)
(* connection and passes it to the handler.                                *)
(***************************************************************************)
BaseRef(l) == <<"base", l>>

ConnRef(c) == <<"conn", c>>

Refs == {BaseRef(l) : l \in ListenerIds} \cup {ConnRef(c) : c \in ConnIds}

\* ctx = ctx_base, without the copy
CtxRef_Shared(c, l) == BaseRef(l)

\* the dict that client_connected hands to the handler of connection c,
\* accepted by listener l
CtxRef(c, l) == ConnRef(c)

\* the context dict of the accepted connection c
Ctx(c) == ctx[CtxRef(c, lsn[c])]

(***************************************************************************)
(* The event loop runs tasks while main is inside run_until_complete or    *)
(* run_forever.                                                            *)
(***************************************************************************)
LoopRunning == mainpc \in {"starting", "running", "draining"}

Init ==
    /\ pc = [c \in ConnIds |-> "idle"]
    /\ lsn = [c \in ConnIds |-> 0]
    /\ peername = [c \in ConnIds |-> <<>>]
    /\ ctx = [r \in Refs |-> ctx_base]
    /\ data = [c \in ConnIds |-> EmptyBytes]
    /\ io = [c \in ConnIds |-> <<>>]
    /\ wclosed = [c \in ConnIds |-> FALSE]
    /\ exc = [c \in ConnIds |-> NoException]
    /\ escaped = [c \in ConnIds |-> FALSE]
    /\ sink = <<>>
    /\ mainpc = "running"
    /\ cfgi = Len(Listeners) + 1
    /\ servers = [i \in ListenerIds |-> i]
    /\ SERVERS = [i \in ListenerIds |-> i]
    /\ lstate = [l \in ListenerIds |-> "listening"]

(***************************************************************************)
(* The history io[c] is a sequence of events [op, bytes]:                  *)
(*   read (a non-empty chunk), eof, timeout, read_error,                   *)
(*   write (writer.write), drain, drain_error,                             *)
(*   log_client / log_server (the logger took the record),                 *)
(*   log_client_error / log_server_error (the logger raised).              *)
(***************************************************************************)
Event(op, bytes) == [op |-> op, bytes |-> bytes]

Did(c, evs) == io' = [io EXCEPT ![c] = @ \o evs]

RECURSIVE BytesOf(_, _)
BytesOf(h, ops) ==
    IF h = <<>> THEN <<>>
    ELSE (IF Head(h).op \in ops THEN <<Head(h).bytes>> ELSE <<>>)
         \o BytesOf(Tail(h), ops)

\* the non-empty chunks c's handler has read, in order
rd(c) == BytesOf(io[c], {"read"})

\* the byte strings c's handler has passed to writer.write, in order
wbuf(c) == BytesOf(io[c], {"write"})

(***************************************************************************)
(* log_interaction: the record built from ctx, role and the bytes, and     *)
(* the sink after logger(record) returned.  "by" is bookkeeping: the task  *)
(* that made the call; it is no field of the record.                       *)
(***************************************************************************)
InteractionRecord(cx, role, bytes) ==
    [role |-> role,
     peer |-> Get(cx, "peer", None),
     peer_port |-> Get(cx, "peer_port", None),
     service |-> Get(cx, "service", None),
     raw_hex |-> Hexlify(bytes),
     raw_text |-> DecodeReplace(bytes)]

\* a logger that opens the file with mode "w": the line replaces the file
log_interaction_Truncate(c, role, bytes) ==
    <<[by |-> c, rec |-> InteractionRecord(Ctx(c), role, bytes)]>>

log_interaction(c, role, bytes) ==
    Append(sink, [by |-> c, rec |-> InteractionRecord(Ctx(c), role, bytes)])

\* the handler_exception record of client_connected
ExceptionRecord(l, error) ==
    [event |-> "handler_exception",
     port |-> Listeners[l].port,
     handler |-> HandlerOf(l),
     error |-> error]

\* an exception e leaves the handler of c: control is in client_connected's
\* except clause
Raise(c, e) ==
    /\ LoopRunning
    /\ pc' = [pc EXCEPT ![c] = "cc_except"]
    /\ exc' = [exc EXCEPT ![c] = e]
    /\ UNCHANGED lifecycle

\* the task of c goes on to label; the event loop is running it
Goto(c, label) ==
    /\ LoopRunning
    /\ pc' = [pc EXCEPT ![c] = label]
    /\ UNCHANGED exc
    /\ UNCHANGED lifecycle

\* first position of the handler selected by start_listener
HandlerEntry(l) ==
    CASE HandlerOf(l) = "http" -> "http_peer"
      [] HandlerOf(l) = "banner" -> "banner_peer"
      [] OTHER -> "generic_peer"

(***************************************************************************)
(* client_connected, up to the call of the handler: the context is a copy  *)
(* of ctx_base with the peer information (None, None when absent); the     *)
(* generic wrapper sets ctx["service"] before it calls the handler.        *)
(* Connection ids are handed out in order.  Only a listening socket        *)
(* accepts.                                                                *)
(***************************************************************************)
\* a listener that awaits the handler before it accepts again
Accept_Serial(c, l, pn) ==
    /\ lstate[l] = "listening"
    /\ \A d \in ConnIds : pc[d] \in {"idle", "done"}
    /\ pc[c] = "idle"
    /\ \A d \in ConnIds : d < c => pc[d] # "idle"
    /\ lsn' = [lsn EXCEPT ![c] = l]
    /\ peername' = [peername EXCEPT ![c] = pn]
    /\ LET withPeer ==
               IF pn # <<>>
               THEN Set(Set(ctx[BaseRef(l)], "peer", pn[1]), "peer_port", pn[2])
               ELSE Set(Set(ctx[BaseRef(l)], "peer", None), "peer_port", None)
           cx == IF HandlerOf(l) \in {"http", "banner"}
                 THEN withPeer
                 ELSE Set(withPeer, "service", GenericService(l))
       IN ctx' = [ctx EXCEPT ![CtxRef(c, l)] = cx]
    /\ Goto(c, HandlerEntry(l))
    /\ UNCHANGED <<data, io, wclosed, escaped, sink>>

\* start_server runs client_connected as a task of its own for every
\* connection
Accept(c, l, pn) ==
    /\ lstate[l] = "listening"
    /\ pc[c] = "idle"
    /\ \A d \in ConnIds : d < c => pc[d] # "idle"
    /\ lsn' = [lsn EXCEPT ![c] = l]
    /\ peername' = [peername EXCEPT ![c] = pn]
    /\ LET withPeer ==
               IF pn # <<>>
               THEN Set(Set(ctx[BaseRef(l)], "peer", pn[1]), "peer_port", pn[2])
               ELSE Set(Set(ctx[BaseRef(l)], "peer", None), "peer_port", None)
           cx == IF HandlerOf(l) \in {"http", "banner"}
                 THEN withPeer
                 ELSE Set(withPeer, "service", GenericService(l))
       IN ctx' = [ctx EXCEPT ![CtxRef(c, l)] = cx]
    /\ Goto(c, HandlerEntry(l))
    /\ UNCHANGED <<data, io, wclosed, escaped, sink>>

(***************************************************************************)
(* The first three statements of every handler:                            *)
(*   peer = writer.get_extra_info("peername")                              *)
(*   ctx["peer"], ctx["peer_port"] =                                       *)
(*       peer[0], peer[1] if peer else (None, None)                        *)
(*   ctx["service"] = ...                                                  *)
(* The right-hand side is the tuple (peer[0], (peer[1] if peer else ...)): *)
(* peer[0] is evaluated first and raises TypeError when peer is None.      *)
(***************************************************************************)
PeerInfo(c, service, next) ==
    IF peername[c] = <<>>
    THEN /\ Raise(c, TypeErrorText)
         /\ UNCHANGED ctx
    ELSE /\ ctx' = [ctx EXCEPT ![CtxRef(c, lsn[c])] =
                 Set(Set(Set(@, "peer", peername[c][1]),
                         "peer_port", peername[c][2]),
                     "service", service)]
         /\ Goto(c, next)

HttpPeer(c) ==
    /\ pc[c] = "http_peer"
    /\ PeerInfo(c, "http", "http_read")
    /\ UNCHANGED <<lsn, peername, data, io, wclosed, escaped, sink>>

BannerPeer(c) ==
    /\ pc[c] = "banner_peer"
    /\ PeerInfo(c, "banner", "banner_write")
    /\ UNCHANGED <<lsn, peername, data, io, wclosed, escaped, sink>>

GenericPeer(c) ==
    /\ pc[c] = "generic_peer"
    /\ PeerInfo(c, Get(Ctx(c), "service", "tcp"), "generic_read")
    /\ UNCHANGED <<lsn, peername, data, io, wclosed, escaped, sink>>

(***************************************************************************)
(* A read with a deadline, as http_handler and banner_handler do it:       *)
(*   try: data = await asyncio.wait_for(reader.read(n), timeout=t)         *)
(*   except asyncio.TimeoutError: data = b""                               *)
(* The result is the peer's bytes, b"" at end of stream, b"" after the     *)
(* timeout; any other exception of the read (connection reset) leaves      *)
(* the handler.                                                            *)
(***************************************************************************)
\* data = await reader.read(n), without wait_for: there is no deadline
TimedRead_NoDeadline(c, onData, onEmpty) ==
    \/ \E chunk \in Chunks :
         /\ data' = [data EXCEPT ![c] = chunk]
         /\ Did(c, <<Event("read", chunk)>>)
         /\ Goto(c, onData)
    \/ /\ data' = [data EXCEPT ![c] = EmptyBytes]
       /\ Did(c, <<Event("eof", EmptyBytes)>>)
       /\ Goto(c, onEmpty)
    \/ /\ Raise(c, ConnectionResetText)
       /\ Did(c, <<Event("read_error", EmptyBytes)>>)
       /\ UNCHANGED data

TimedRead(c, onData, onEmpty) ==
    \/ \E chunk \in Chunks :
         /\ data' = [data EXCEPT ![c] = chunk]
         /\ Did(c, <<Event("read", chunk)>>)
         /\ Goto(c, onData)
    \/ \E outcome \in {"eof", "timeout"} :
         /\ data' = [data EXCEPT ![c] = EmptyBytes]
         /\ Did(c, <<Event(outcome, EmptyBytes)>>)
         /\ Goto(c, onEmpty)
    \/ /\ Raise(c, ConnectionResetText)
       /\ Did(c, <<Event("read_error", EmptyBytes)>>)
       /\ UNCHANGED data

(***************************************************************************)
(* http_handler.                                                           *)
(***************************************************************************)
HttpRead(c) ==
    /\ pc[c] = "http_read"
    /\ TimedRead(c, "http_log_client", "http_respond")
    /\ UNCHANGED <<lsn, peername, ctx, wclosed, escaped, sink>>

\* if data: await log_interaction(ctx, "client", data); an exception of the
\* logger is not caught in log_interaction nor in http_handler
HttpLogClient(c) ==
    /\ pc[c] = "http_log_client"
    /\ \/ /\ sink' = log_interaction(c, "client", data[c])
          /\ Did(c, <<Event("log_client", data[c])>>)
          /\ Goto(c, "http_respond")
       \/ /\ Raise(c, SinkErrorText)
          /\ Did(c, <<Event("log_client_error", data[c])>>)
          /\ UNCHANGED sink
    /\ UNCHANGED <<lsn, peername, ctx, data, wclosed, escaped>>

(***************************************************************************)
(* resp = HTTP_RESPONSE.format(length=len(body), body=body).encode():      *)
(* HTTP_RESPONSE is a bytes literal and bytes has no method format, so     *)
(* the attribute lookup raises AttributeError.  The statements after it    *)
(* (log the response, write, drain, close) are never reached.              *)
(***************************************************************************)
HTTP_RESPONSE == [type |-> "bytes"]

HasFormat(v) == v.type = "str"

HttpRespond(c) ==
    /\ pc[c] = "http_respond"
    /\ ~HasFormat(HTTP_RESPONSE)
    /\ Raise(c, AttributeErrorText)
    /\ UNCHANGED <<lsn, peername, ctx, data, io, wclosed, escaped, sink>>

(***************************************************************************)
(* banner_handler.                                                         *)
(*                                                                         *)
(* try: writer.write(banner); await writer.drain();                        *)
(*      await log_interaction(ctx, "server", banner)                       *)
(* except: pass                                                            *)
(* write only buffers; a failing drain skips the log call.                 *)
(***************************************************************************)
\* the server record is logged first and the banner written after it, the
\* order of the statements that follow the response in http_handler
BannerWrite_LogFirst(c) ==
    /\ pc[c] = "banner_write"
    /\ sink' = log_interaction(c, "server", BannerOf(lsn[c]))
    /\ Did(c, <<Event("log_server", BannerOf(lsn[c])),
                Event("write", BannerOf(lsn[c])), Event("drain", EmptyBytes)>>)
    /\ Goto(c, "banner_read")
    /\ UNCHANGED <<lsn, peername, ctx, data, wclosed, escaped>>

BannerWrite(c) ==
    /\ pc[c] = "banner_write"
    /\ \/ /\ Did(c, <<Event("write", BannerOf(lsn[c])), Event("drain", EmptyBytes)>>)
          /\ Goto(c, "banner_log_server")
       \/ /\ Did(c, <<Event("write", BannerOf(lsn[c])),
                      Event("drain_error", EmptyBytes)>>)
          /\ Goto(c, "banner_read")
    /\ UNCHANGED <<lsn, peername, ctx, data, wclosed, escaped, sink>>

\* the log call inside the try: an exception of the logger is swallowed by
\* the bare except
BannerLogServer(c) ==
    /\ pc[c] = "banner_log_server"
    /\ \/ /\ sink' = log_interaction(c, "server", BannerOf(lsn[c]))
          /\ Did(c, <<Event("log_server", BannerOf(lsn[c]))>>)
       \/ /\ Did(c, <<Event("log_server_error", BannerOf(lsn[c]))>>)
          /\ UNCHANGED sink
    /\ Goto(c, "banner_read")
    /\ UNCHANGED <<lsn, peername, ctx, data, wclosed, escaped>>

\* data = await asyncio.wait_for(reader.read(2048), timeout=10.0)
BannerRead(c) ==
    /\ pc[c] = "banner_read"
    /\ TimedRead(c, "banner_log_client", "banner_close")
    /\ UNCHANGED <<lsn, peername, ctx, wclosed, escaped, sink>>

\* if data: await log_interaction(ctx, "client", data), outside any try
BannerLogClient(c) ==
    /\ pc[c] = "banner_log_client"
    /\ \/ /\ sink' = log_interaction(c, "client", data[c])
          /\ Did(c, <<Event("log_client", data[c])>>)
          /\ Goto(c, "banner_close")
       \/ /\ Raise(c, SinkErrorText)
          /\ Did(c, <<Event("log_client_error", data[c])>>)
          /\ UNCHANGED sink
    /\ UNCHANGED <<lsn, peername, ctx, data, wclosed, escaped>>

\* writer.close(); try: await writer.wait_closed() except: pass; return
BannerClose(c) ==
    /\ pc[c] = "banner_close"
    /\ wclosed' = [wclosed EXCEPT ![c] = TRUE]
    /\ Goto(c, "done")
    /\ UNCHANGED <<lsn, peername, ctx, data, io, escaped, sink>>

(***************************************************************************)
(* generic_tcp_handler: the loop runs inside try / except Exception: pass  *)
(* / finally: close.                                                       *)
(*                                                                         *)
(* data = await reader.read(4096); if not data: break.  There is no        *)
(* timeout: while the peer is silent the task stays here.  The peer sends  *)
(* at most MaxChunks chunks.                                               *)
(***************************************************************************)
GenericRead(c) ==
    /\ pc[c] = "generic_read"
    /\ \/ \E chunk \in Chunks :
            /\ Len(rd(c)) < MaxChunks
            /\ data' = [data EXCEPT ![c] = chunk]
            /\ Did(c, <<Event("read", chunk)>>)
            /\ Goto(c, "generic_log_client")
       \/ /\ data' = [data EXCEPT ![c] = EmptyBytes]
          /\ Did(c, <<Event("eof", EmptyBytes)>>)
          /\ Goto(c, "generic_close")
       \/ /\ Did(c, <<Event("read_error", EmptyBytes)>>)
          /\ Goto(c, "generic_close")
          /\ UNCHANGED data
    /\ UNCHANGED <<lsn, peername, ctx, wclosed, escaped, sink>>

\* await log_interaction(ctx, "client", data); an exception of the logger
\* ends the loop through except Exception: pass
GenericLogClient(c) ==
    /\ pc[c] = "generic_log_client"
    /\ \/ /\ sink' = log_interaction(c, "client", data[c])
          /\ Did(c, <<Event("log_client", data[c])>>)
          /\ Goto(c, IF EchoOf(lsn[c]) THEN "generic_echo" ELSE "generic_read")
       \/ /\ Did(c, <<Event("log_client_error", data[c])>>)
          /\ UNCHANGED sink
          /\ Goto(c, "generic_close")
    /\ UNCHANGED <<lsn, peername, ctx, data, wclosed, escaped>>

\* if echo: writer.write(data); await writer.drain().  No log_interaction
\* call follows the write.
GenericEcho(c) ==
    /\ pc[c] = "generic_echo"
    /\ \/ /\ Did(c, <<Event("write", data[c]), Event("drain", EmptyBytes)>>)
          /\ Goto(c, "generic_read")
       \/ /\ Did(c, <<Event("write", data[c]), Event("drain_error", EmptyBytes)>>)
          /\ Goto(c, "generic_close")
    /\ UNCHANGED <<lsn, peername, ctx, data, wclosed, escaped, sink>>

\* finally: writer.close(); try: await writer.wait_closed() except: pass
GenericClose(c) ==
    /\ pc[c] = "generic_close"
    /\ wclosed' = [wclosed EXCEPT ![c] = TRUE]
    /\ Goto(c, "done")
    /\ UNCHANGED <<lsn, peername, ctx, data, io, escaped, sink>>

(***************************************************************************)
(* client_connected, except Exception as e: the handler_exception record   *)
(* is passed to logger(record).  The call is not guarded: when the logger  *)
(* raises, the exception leaves client_connected.  The writer is not       *)
(* closed here.                                                            *)
(***************************************************************************)
HandlerException(c) ==
    /\ pc[c] = "cc_except"
    /\ \/ /\ sink' = Append(sink, [by |-> c, rec |-> ExceptionRecord(lsn[c], exc[c])])
          /\ UNCHANGED escaped
       \/ /\ escaped' = [escaped EXCEPT ![c] = TRUE]
          /\ UNCHANGED sink
    /\ Goto(c, "done")
    /\ UNCHANGED <<lsn, peername, ctx, data, io, wclosed>>

\* one step of the task of connection c
ConnStep(c) ==
        \/ \E l \in ListenerIds : \E pn \in PeerNames(c) : Accept(c, l, pn)
        \/ HttpPeer(c)
        \/ HttpRead(c)
        \/ HttpLogClient(c)
        \/ HttpRespond(c)
        \/ BannerPeer(c)
        \/ BannerWrite(c)
        \/ BannerLogServer(c)
        \/ BannerRead(c)
        \/ BannerLogClient(c)
        \/ BannerClose(c)
        \/ GenericPeer(c)
        \/ GenericRead(c)
        \/ GenericLogClient(c)
        \/ GenericEcho(c)
        \/ GenericClose(c)
        \/ HandlerException(c)

(***************************************************************************)
(* The run phase with every configured listener bound: connections are     *)
(* accepted and handled.                                                   *)
(***************************************************************************)
Next == \E c \in ConnIds : ConnStep(c)

Spec == Init /\ [][Next]_vars

(***************************************************************************)
(* main and run_from_config.                                               *)
(*                                                                         *)
(* run_from_config: for l in listeners: try: srv = await start_listener;   *)
(* servers.append(srv); except PermissionError / except Exception: print.  *)
(* The bind of a listener succeeds, fails for lack of permission or fails  *)
(* otherwise (port in use).  A bound listener accepts from then on.        *)
(***************************************************************************)
BindOutcomes == {"ok", "permission", "error"}

\* the state of config l's socket after start_listener ended with outcome
Bound(outcome) ==
    CASE outcome = "ok" -> "listening"
      [] outcome = "permission" -> "failed_permission"
      [] OTHER -> "failed_error"

\* the list servers after start_listener for config l ended with outcome
Appended(srvs, l, outcome) ==
    IF outcome = "ok" THEN Append(srvs, l) ELSE srvs

\* a failed bind ends the for loop
NextConfig_Abort(l, outcome) ==
    IF outcome = "ok" THEN l + 1 ELSE Len(Listeners) + 1

\* the index of the config run_from_config goes on with after config l
NextConfig(l, outcome) == l + 1

StartListener(l, outcome) ==
    /\ mainpc = "starting"
    /\ cfgi = l
    /\ lstate' = [lstate EXCEPT ![l] = Bound(outcome)]
    /\ servers' = Appended(servers, l, outcome)
    /\ cfgi' = NextConfig(l, outcome)
    /\ UNCHANGED <<mainpc, SERVERS, connvars>>

\* servers = loop.run_until_complete(run_from_config(...)); SERVERS = servers;
\* loop.run_forever()
RunForever ==
    /\ mainpc = "starting"
    /\ cfgi > Len(Listeners)
    /\ SERVERS' = servers
    /\ mainpc' = "running"
    /\ UNCHANGED <<cfgi, servers, lstate, connvars>>

\* KeyboardInterrupt (or an error) ends run_until_complete or run_forever:
\* control goes to except / finally
Interrupt ==
    /\ mainpc \in {"starting", "running"}
    /\ mainpc' = "interrupted"
    /\ UNCHANGED <<cfgi, servers, SERVERS, lstate, connvars>>

\* asyncio's Server.close(): the listening socket is closed; on a server
\* that is not listening it does nothing
ServerClose(st) == IF st = "listening" THEN "closed" ELSE st

\* the members of a list
Members(list) == {list[i] : i \in 1..Len(list)}

\* finally: for s in SERVERS: s.close(); loop.stop(); then
\* loop.run_until_complete(loop.shutdown_asyncgens()) runs the loop once
\* more, so tasks that are ready may still take steps
\* a close that also cancels the tasks of the connections in flight
CloseServers_Cancelling ==
    /\ mainpc = "interrupted"
    /\ lstate' = [l \in ListenerIds |->
                     IF l \in Members(SERVERS) THEN ServerClose(lstate[l])
                     ELSE lstate[l]]
    /\ pc' = [c \in ConnIds |-> IF pc[c] = "idle" THEN "idle" ELSE "done"]
    /\ mainpc' = "draining"
    /\ UNCHANGED <<cfgi, servers, SERVERS>>
    /\ UNCHANGED <<lsn, peername, ctx, data, io, wclosed, exc, escaped, sink>>

CloseServers ==
    /\ mainpc = "interrupted"
    /\ lstate' = [l \in ListenerIds |->
                     IF l \in Members(SERVERS) THEN ServerClose(lstate[l])
                     ELSE lstate[l]]
    /\ mainpc' = "draining"
    /\ UNCHANGED <<cfgi, servers, SERVERS, connvars>>

\* loop.close(); print("[*] Honeypot arrestato."): tasks still pending are
\* never run again
LoopClose ==
    /\ mainpc = "draining"
    /\ mainpc' = "stopped"
    /\ UNCHANGED <<cfgi, servers, SERVERS, lstate, connvars>>

(***************************************************************************)
(* The whole run of main, from the start of run_from_config to the end of  *)
(* the process, with at most MaxMainConns connections.                     *)
(***************************************************************************)
MaxMainConns == 1

MainConnIds == 1..MaxMainConns

MainInit ==
    /\ pc = [c \in ConnIds |-> "idle"]
    /\ lsn = [c \in ConnIds |-> 0]
    /\ peername = [c \in ConnIds |-> <<>>]
    /\ ctx = [r \in Refs |-> ctx_base]
    /\ data = [c \in ConnIds |-> EmptyBytes]
    /\ io = [c \in ConnIds |-> <<>>]
    /\ wclosed = [c \in ConnIds |-> FALSE]
    /\ exc = [c \in ConnIds |-> NoException]
    /\ escaped = [c \in ConnIds |-> FALSE]
    /\ sink = <<>>
    /\ mainpc = "starting"
    /\ cfgi = 1
    /\ servers = <<>>
    /\ SERVERS = <<>>
    /\ lstate = [l \in ListenerIds |-> "unbound"]

MainNext ==
    \/ \E l \in ListenerIds : \E outcome \in BindOutcomes : StartListener(l, outcome)
    \/ RunForever
    \/ Interrupt
    \/ CloseServers
    \/ LoopClose
    \/ \E c \in MainConnIds : ConnStep(c)

MainSpec == MainInit /\ [][MainNext]_vars

(***************************************************************************)
(* Scheduling.  The event loop runs every task that is ready, so a step    *)
(* that waits for nothing outside the program is taken: the statements     *)
(* between awaits, the logger calls, close, and the drain of the short     *)
(* banner on a fresh connection.  A read completes when the peer sends,    *)
(* closes or resets, which the peer may never do; what the loop itself     *)
(* guarantees is the timer of asyncio.wait_for, so of the reads only the   *)
(* timeout outcome is fair.  reader.read and writer.drain of               *)
(* generic_tcp_handler have no deadline and are not fair.                  *)
(***************************************************************************)
Internal(c) ==
    \/ HttpPeer(c)
    \/ HttpLogClient(c)
    \/ HttpRespond(c)
    \/ BannerPeer(c)
    \/ BannerWrite(c)
    \/ BannerLogServer(c)
    \/ BannerLogClient(c)
    \/ BannerClose(c)
    \/ GenericPeer(c)
    \/ GenericLogClient(c)
    \/ GenericClose(c)
    \/ HandlerException(c)

\* the timer of wait_for fires: timeout=3.0 in http_handler, 10.0 in
\* banner_handler
Deadline(c) ==
    /\ HttpRead(c) \/ BannerRead(c)
    /\ io'[c] = Append(io[c], Event("timeout", EmptyBytes))

\* the connections of the specification with scheduling
FairConnIds == 1..MaxMainConns

FairNext == \E c \in FairConnIds : ConnStep(c)

FairSpec ==
    /\ Init
    /\ [][FairNext]_vars
    /\ \A c \in FairConnIds : WF_vars(Internal(c)) /\ WF_vars(Deadline(c))

(***************************************************************************)
(* Vocabulary of the properties.                                           *)
(***************************************************************************)
Accepted(c) == lsn[c] # 0

KindOf(c) == HandlerOf(lsn[c])

\* the handler invocation of c has ended (returned or raised)
HandlerEnded(c) == pc[c] \in {"cc_except", "done"}

\* client_connected has ended for c
Ended(c) == pc[c] = "done"

\* c's history has an event of one of the kinds ops
Has(c, ops) == \E i \in 1..Len(io[c]) : io[c][i].op \in ops

\* the interaction records with the given role that c's task put in the sink
Records(c, role) ==
    Cardinality({i \in 1..Len(sink) :
        /\ sink[i].by = c
        /\ "role" \in DOMAIN sink[i].rec
        /\ sink[i].rec.role = role})

\* the handler_exception records that c's task put in the sink
ExceptionRecords(c) ==
    Cardinality({i \in 1..Len(sink) :
        /\ sink[i].by = c
        /\ "event" \in DOMAIN sink[i].rec
        /\ sink[i].rec.event = "handler_exception"})

\* the calls of log_interaction c's handler made for a role, whether or not
\* the logger took the record
LogCalls(c, role) ==
    Cardinality({i \in 1..Len(io[c]) :
        io[c][i].op \in {"log_" \o role, "log_" \o role \o "_error"}})

LogErrors == {"log_client_error", "log_server_error"}

(***************************************************************************)
(* C1: once the handler invocation of an accepted connection has ended,    *)
(* by return or by exception, the connection's writer has been closed.     *)
(* Violated: http_handler never reaches writer.close(), and no handler     *)
(* closes the writer on an exception raised outside its try blocks.        *)
(***************************************************************************)
C1_WriterClosedWhenHandlerEnded ==
    \A c \in ConnIds : HandlerEnded(c) => wclosed[c]

(***************************************************************************)
(* C2: on a connection to an http listener, whatever the read returned     *)
(* (bytes, end of stream or a timeout), the handler has written the        *)
(* response, logged one server record carrying it and closed the           *)
(* connection by the time it ends.  Stated for connections with peer       *)
(* information and a logger that never raised, so that only the response   *)
(* step decides it.                                                        *)
(***************************************************************************)
C2_HttpAlwaysResponds ==
    \A c \in ConnIds :
        ( /\ Accepted(c)
          /\ KindOf(c) = "http"
          /\ HandlerEnded(c)
          /\ Has(c, {"read", "eof", "timeout"})
          /\ ~Has(c, LogErrors) )
        => /\ Len(wbuf(c)) = 1
           /\ LogCalls(c, "server") = 1
           /\ wclosed[c]

(***************************************************************************)
(* C3: when a handler raised, client_connected ends with exactly one       *)
(* handler_exception record of that connection in the sink and without an  *)
(* exception leaving client_connected.                                     *)
(***************************************************************************)
C3_HandlerExceptionRecordedOnce ==
    \A c \in ConnIds :
        (Ended(c) /\ exc[c] # NoException)
        => /\ ~escaped[c]
           /\ ExceptionRecords(c) = 1

(***************************************************************************)
(* C4: log_interaction never raises to its caller: no exception of the     *)
(* sink ever leaves a handler.                                             *)
(***************************************************************************)
C4_LogInteractionNeverRaises ==
    \A c \in ConnIds : exc[c] # SinkErrorText

(***************************************************************************)
(* C5: in every handler, the call of the recorder for a successful read    *)
(* (role client, those bytes) or a successful write (write and drain; role *)
(* server, those bytes) is the next thing the handler does: no other I/O   *)
(* event comes between.  A call whose logger raised counts as made.        *)
(***************************************************************************)
C5_EveryIoRecordedBeforeNextIo ==
    \A c \in ConnIds : \A i \in 1..Len(io[c]) :
        i < Len(io[c]) =>
            /\ io[c][i].op = "read" =>
                   /\ io[c][i + 1].op \in {"log_client", "log_client_error"}
                   /\ io[c][i + 1].bytes = io[c][i].bytes
            /\ io[c][i].op = "drain" =>
                   /\ io[c][i + 1].op \in {"log_server", "log_server_error"}
                   /\ io[c][i + 1].bytes = io[c][i - 1].bytes

(***************************************************************************)
(* C6: on a generic listener with echo enabled, whenever the handler is    *)
(* back at its read (every chunk so far was read, logged and echoed        *)
(* without a failure), the chunks written back are the chunks read and     *)
(* the sink holds as many server records as client records of that         *)
(* connection, one per chunk.                                              *)
(***************************************************************************)
C6_EchoLoggedAsServer ==
    \A c \in ConnIds :
        (Accepted(c) /\ KindOf(c) = "generic" /\ EchoOf(lsn[c])
            /\ pc[c] = "generic_read")
        => /\ wbuf(c) = rd(c)
           /\ Records(c, "client") = Len(rd(c))
           /\ Records(c, "server") = Len(rd(c))

(***************************************************************************)
(* C7: on a generic listener, when the handler has ended: with echo        *)
(* enabled the bytes written back are exactly the chunks read, in order;   *)
(* with echo disabled nothing was written and the recorder was called      *)
(* once, role client, for each chunk read.                                 *)
(***************************************************************************)
C7_EchoExactlyWhatWasRead ==
    \A c \in ConnIds :
        (Accepted(c) /\ KindOf(c) = "generic" /\ pc[c] \in {"generic_close", "done"})
        => IF EchoOf(lsn[c])
           THEN wbuf(c) = rd(c)
           ELSE wbuf(c) = <<>> /\ LogCalls(c, "client") = Len(rd(c))

(***************************************************************************)
(* C8: in the http and banner handlers a read that timed out is empty      *)
(* data: no client record is logged, no exception leaves the handler, and  *)
(* the handler does its next step: http has sent the response, banner has  *)
(* closed the connection, by the time client_connected ends.               *)
(***************************************************************************)
C8_TimeoutIsEmptyData ==
    \A c \in ConnIds :
        (Accepted(c) /\ Has(c, {"timeout"}) /\ Ended(c))
        => /\ Records(c, "client") = 0
           /\ exc[c] = NoException
           /\ KindOf(c) = "http" => Len(wbuf(c)) = 1
           /\ KindOf(c) = "banner" => wclosed[c]

(***************************************************************************)
(* C9: on every connection to a banner listener the first I/O is the write *)
(* of the configured banner with its escape sequences decoded (it ends in  *)
(* CR LF); when that write's drain succeeded the recorder is called for    *)
(* the server record before any read; and a connection whose handler has   *)
(* ended was sent the banner.                                              *)
(***************************************************************************)
C9_BannerFirst ==
    \A c \in ConnIds :
        (Accepted(c) /\ KindOf(c) = "banner")
        => /\ io[c] # <<>> =>
                  /\ io[c][1] = Event("write", BannerOf(lsn[c]))
                  /\ BannerOf(lsn[c])[Len(BannerOf(lsn[c])) - 1] = 13
                  /\ BannerOf(lsn[c])[Len(BannerOf(lsn[c]))] = 10
           /\ \A j \in 1..Len(io[c]) :
                  (io[c][j].op \in {"read", "eof", "timeout", "read_error"}
                      /\ io[c][2].op = "drain")
                  => io[c][3].op \in {"log_server", "log_server_error"}
           /\ HandlerEnded(c) => wbuf(c) = <<BannerOf(lsn[c])>>

(***************************************************************************)
(* C10: an accepted connection without peer information is handled         *)
(* normally: peer and peer_port are None in its context, no exception      *)
(* leaves the handler and no handler_exception record is produced.         *)
(***************************************************************************)
C10_AbsentPeerHandledNormally ==
    \A c \in ConnIds :
        (Accepted(c) /\ peername[c] = <<>>)
        => /\ Ctx(c).peer = None
           /\ Ctx(c).peer_port = None
           /\ exc[c] = NoException
           /\ ExceptionRecords(c) = 0

(***************************************************************************)
(* More vocabulary: the listeners.                                         *)
(***************************************************************************)
\* the bind of config l succeeded
BoundOk(l) == lstate[l] \in {"listening", "closed"}

\* the bind of config l failed
BindFailed(l) == lstate[l] \in {"failed_permission", "failed_error"}

\* the configs before index n whose bind succeeded, in config order
RECURSIVE BoundBefore(_)
BoundBefore(n) ==
    IF n <= 1 THEN <<>>
    ELSE IF BoundOk(n - 1) THEN Append(BoundBefore(n - 1), n - 1)
         ELSE BoundBefore(n - 1)

(***************************************************************************)
(* C11: a bind failure on one listener, for lack of permission or for any  *)
(* other reason, does not stop run_from_config: the list it builds is at   *)
(* every moment the configs tried so far whose bind succeeded, in config   *)
(* order; when main runs the loop forever every config has been tried and  *)
(* the list main received is exactly the listeners that bound; and every   *)
(* record in the sink was put there by the task of a connection accepted   *)
(* on a listener that bound, so a failed bind emitted none.                *)
(***************************************************************************)
C11_BindFailureDoesNotStopOthers ==
    /\ servers = BoundBefore(cfgi)
    /\ mainpc = "running" =>
           /\ \A l \in ListenerIds : BoundOk(l) \/ BindFailed(l)
           /\ SERVERS = BoundBefore(Len(Listeners) + 1)
    /\ \A i \in 1..Len(sink) :
           /\ Accepted(sink[i].by)
           /\ BoundOk(lsn[sink[i].by])
           /\ ~BindFailed(lsn[sink[i].by])

\* run_from_config returned after the first config failed for lack of
\* permission and the third failed otherwise; the other two listen, and a
\* connection accepted on the second has a record in the sink
C11_Witness ==
    /\ mainpc = "running"
    /\ lstate[1] = "failed_permission"
    /\ lstate[3] = "failed_error"
    /\ SERVERS = <<2, 4>>
    /\ \E i \in 1..Len(sink) : lsn[sink[i].by] = 2

(***************************************************************************)
(* More vocabulary: the tasks.                                             *)
(***************************************************************************)
\* the task of c is suspended in an await of its handler: a read (with or
\* without timeout) or the drain after a write
Suspended(c) ==
    pc[c] \in {"http_read", "banner_read", "generic_read",
               "banner_write", "generic_echo"}

\* the task of c has been started and has not ended
InFlight(c) == pc[c] \notin {"idle", "done"}

\* c is the connection id the next accept hands out
NextId(c) == pc[c] = "idle" /\ \A d \in ConnIds : d < c => pc[d] # "idle"

(***************************************************************************)
(* C12: while the handler of one connection is suspended in a read or a    *)
(* drain, every listening listener, the connection's own included, can     *)
(* accept the next connection, with or without peer information, and the   *)
(* task of every other connection in flight can take its next step: no     *)
(* suspended connection disables an accept or a step of another task.      *)
(***************************************************************************)
C12_SuspendedHandlerBlocksNobody ==
    \A c \in ConnIds : \A d \in ConnIds \ {c} :
        Suspended(c)
        => /\ NextId(d) =>
                  \A l \in ListenerIds : \A pn \in PeerNames(d) :
                      lstate[l] = "listening" => ENABLED Accept(d, l, pn)
           /\ InFlight(d) => ENABLED ConnStep(d)

\* connection 1 still waits for the first byte of a silent peer on the
\* generic listener; connection 2, accepted later on the same listener,
\* was read, logged and closed
C12_Witness ==
    /\ pc[1] = "generic_read"
    /\ io[1] = <<>>
    /\ lsn[2] = lsn[1]
    /\ pc[2] = "done"
    /\ wclosed[2]
    /\ Records(2, "client") >= 1

(***************************************************************************)
(* More vocabulary: the order of records.                                  *)
(***************************************************************************)
\* role and hex payload of the interaction records c's task put in the
\* sink, in sink order
RECURSIVE EmittedBy(_, _)
EmittedBy(c, s) ==
    IF s = <<>> THEN <<>>
    ELSE (IF Head(s).by = c /\ "role" \in DOMAIN Head(s).rec
          THEN <<<<Head(s).rec.role, Head(s).rec.raw_hex>>>>
          ELSE <<>>)
         \o EmittedBy(c, Tail(s))

\* role and hex payload of the log calls in a history whose record the
\* logger took, in the order of the calls
RECURSIVE LoggedIn(_)
LoggedIn(h) ==
    IF h = <<>> THEN <<>>
    ELSE (CASE Head(h).op = "log_client" -> <<<<"client", Hexlify(Head(h).bytes)>>>>
            [] Head(h).op = "log_server" -> <<<<"server", Hexlify(Head(h).bytes)>>>>
            [] OTHER -> <<>>)
         \o LoggedIn(Tail(h))

(***************************************************************************)
(* C13: within one connection the records reach the sink in the order in   *)
(* which the reads and writes completed: a client record is logged right   *)
(* after the read that returned its bytes, a server record right after     *)
(* the drain that followed the write of its bytes, and the records of the  *)
(* connection stand in the sink in the order of these log calls.           *)
(***************************************************************************)
C13_RecordsInOrderOfCompletion ==
    \A c \in ConnIds :
        /\ \A i \in 1..Len(io[c]) :
               /\ io[c][i].op \in {"log_client", "log_client_error"}
                  => /\ i > 1
                     /\ io[c][i - 1] = Event("read", io[c][i].bytes)
               /\ io[c][i].op \in {"log_server", "log_server_error"}
                  => /\ i > 2
                     /\ io[c][i - 1].op = "drain"
                     /\ io[c][i - 2] = Event("write", io[c][i].bytes)
        /\ EmittedBy(c, sink) = LoggedIn(io[c])

\* a banner connection with peer information whose server record (after
\* write and drain) and client record (after the read) are both in the
\* sink, with a record of the other connection between them
C13_Witness ==
    \E c \in ConnIds : \E i, j, k \in 1..Len(sink) :
        /\ Accepted(c)
        /\ KindOf(c) = "banner"
        /\ i < j /\ j < k
        /\ sink[i].by = c /\ sink[k].by = c /\ sink[j].by # c
        /\ EmittedBy(c, sink) =
               <<<<"server", Hexlify(BannerOf(lsn[c]))>>, <<"client", Hexlify(Ping)>>>>

(***************************************************************************)
(* C14: the http handler sends a response, an HTTP/1.1 200 whose           *)
(* Content-Length is the number of bytes after the blank line.  Stated as  *)
(* far as the program gets: on an http connection with peer information,   *)
(* a read that did not fail and a logger that never raised, once           *)
(* client_connected has ended some response has been passed to             *)
(* writer.write and no exception left the handler.  Violated: formatting   *)
(* the response raises, so there is no response whose Content-Length       *)
(* could be compared with its body.                                        *)
(***************************************************************************)
C14_ResponseWithContentLengthSent ==
    \A c \in ConnIds :
        ( /\ Accepted(c)
          /\ KindOf(c) = "http"
          /\ Ended(c)
          /\ peername[c] # <<>>
          /\ ~Has(c, LogErrors \cup {"read_error"}) )
        => /\ wbuf(c) # <<>>
           /\ exc[c] = NoException

(***************************************************************************)
(* C15: a transport error (a read or a drain that fails) is recovered      *)
(* inside the handler, whatever its kind: once client_connected has ended  *)
(* for a connection that met one, no exception has left the handler, the   *)
(* writer is closed and no handler_exception record was produced.  Stated  *)
(* for connections with peer information and a logger that never raised.   *)
(* Violated: http_handler and banner_handler catch only the timeout of     *)
(* their read.                                                             *)
(***************************************************************************)
C15_TransportErrorRecoveredInHandler ==
    \A c \in ConnIds :
        ( /\ Accepted(c)
          /\ Ended(c)
          /\ peername[c] # <<>>
          /\ Has(c, {"read_error", "drain_error"})
          /\ ~Has(c, LogErrors) )
        => /\ exc[c] = NoException
           /\ wclosed[c]
           /\ ExceptionRecords(c) = 0

(***************************************************************************)
(* More vocabulary: the log.  logger(record) opens the file for append,    *)
(* writes json.dumps(record) + "\n" in one write and closes it, without    *)
(* an await: an element of sink is one such line.                          *)
(***************************************************************************)
InteractionFields ==
    {"role", "peer", "peer_port", "service", "raw_hex", "raw_text"}

ExceptionFields == {"event", "port", "handler", "error"}

\* the records the task of c has passed to a logger that returned
PassedBy(c) ==
    Len(LoggedIn(io[c]))
    + (IF Ended(c) /\ exc[c] # NoException /\ ~escaped[c] THEN 1 ELSE 0)

\* the lines of the log written for the task of c
LinesBy(c) == Cardinality({i \in 1..Len(sink) : sink[i].by = c})

(***************************************************************************)
(* C16: with the tasks of several connections calling the logger in any    *)
(* interleaving, every line of the log is one whole record (all the        *)
(* fields of an interaction record, or all the fields of a                 *)
(* handler_exception record, from one task), and every record a task       *)
(* passed to the logger is in the log exactly once: for each task the      *)
(* number of its lines is the number of records it passed, and its         *)
(* interaction lines are the records it passed, in order.                  *)
(***************************************************************************)
C16_EveryRecordOneWholeLineOnce ==
    /\ \A i \in 1..Len(sink) :
           /\ DOMAIN sink[i] = {"by", "rec"}
           /\ sink[i].by \in ConnIds
           /\ \/ DOMAIN sink[i].rec = InteractionFields
              \/ DOMAIN sink[i].rec = ExceptionFields
    /\ \A c \in ConnIds :
           /\ LinesBy(c) = PassedBy(c)
           /\ Len(EmittedBy(c, sink)) + ExceptionRecords(c) = LinesBy(c)

\* the lines of two connections alternate in the log: task 1, task 2,
\* task 1, task 2
C16_Witness ==
    \E i, j, k, m \in 1..Len(sink) :
        /\ i < j /\ j < k /\ k < m
        /\ sink[i].by = 1 /\ sink[j].by = 2
        /\ sink[k].by = 1 /\ sink[m].by = 2

ServiceOf(l) ==
    CASE HandlerOf(l) = "http" -> "http"
      [] HandlerOf(l) = "banner" -> "banner"
      [] OTHER -> GenericService(l)

(***************************************************************************)
(* C18: every accepted connection has a context of its own.  The base      *)
(* context of every listener stays {"logger": logger} whatever the         *)
(* connections do; the contexts of two accepted connections are different  *)
(* dict objects, and none is a listener's base context; the context of a   *)
(* connection holds the logger of the base, the connection's own peer and  *)
(* peer_port (None without peer information) and, once set, the service    *)
(* of its own listener; and every interaction record carries the peer,     *)
(* peer_port and service of the connection whose task emitted it.          *)
(***************************************************************************)
C18_FreshContextPerConnection ==
    /\ \A l \in ListenerIds : ctx[BaseRef(l)] = ctx_base
    /\ \A c \in ConnIds :
           Accepted(c)
           => /\ \A l \in ListenerIds : CtxRef(c, lsn[c]) # BaseRef(l)
              /\ \A d \in ConnIds \ {c} :
                     Accepted(d) => CtxRef(c, lsn[c]) # CtxRef(d, lsn[d])
              /\ Ctx(c).logger = ctx_base.logger
              /\ Ctx(c).peer = (IF peername[c] = <<>> THEN None ELSE peername[c][1])
              /\ Ctx(c).peer_port =
                     (IF peername[c] = <<>> THEN None ELSE peername[c][2])
              /\ Get(Ctx(c), "service", ServiceOf(lsn[c])) = ServiceOf(lsn[c])
    /\ \A i \in 1..Len(sink) :
           "role" \in DOMAIN sink[i].rec
           => /\ peername[sink[i].by] # <<>>
              /\ sink[i].rec.peer = peername[sink[i].by][1]
              /\ sink[i].rec.peer_port = peername[sink[i].by][2]
              /\ sink[i].rec.service = ServiceOf(lsn[sink[i].by])

\* two connections with different peer ports on the same listener each
\* have a record in the sink, the second accepted while the first was
\* still in flight
C18_Witness ==
    \E i, j \in 1..Len(sink) :
        /\ sink[i].by = 1 /\ sink[j].by = 2
        /\ "role" \in DOMAIN sink[i].rec /\ "role" \in DOMAIN sink[j].rec
        /\ lsn[1] = lsn[2]
        /\ sink[i].rec.peer_port # sink[j].rec.peer_port
        /\ j < i

(***************************************************************************)
(* More vocabulary: what ends the loop of generic_tcp_handler.             *)
(***************************************************************************)
LoopEnders == {"eof", "read_error", "drain_error", "log_client_error"}

C20_ShutdownClosesEveryStartedListener ==
    mainpc = "stopped" => \A l \in ListenerIds : lstate[l] # "listening"

====
